---- MODULE Spec2Model ----
(***************************************************************************)
(* fems_exporter: a Prometheus exporter that, per HTTP request, opens or   *)
(* reuses a Modbus/TCP session to a FEMS device, reads the fixed register  *)
(* table MODBUS_METRICS and renders one exposition line per entry.         *)
(*                                                                         *)
(* The module models src/main.rs: the register table, the three decoders,  *)
(* the line formatting and the async handler `metrics`, cut into one       *)
(* action per stretch of code between two await points.                    *)
(***************************************************************************)
EXTENDS Integers, Sequences, FiniteSets, TLC

(***************************************************************************)
(* Bounds of the model.                                                    *)
(***************************************************************************)
\* Number of request tasks that may be in flight at the same time.
NumReq == 2
\* Successful connects per address after which the model stops connecting.
MaxConnects == 2
\* Longest word sequence handed to a decoder in DecodeSpec.
MaxLen == 5

(***************************************************************************)
(* ModbusType and register_count.                                          *)
(***************************************************************************)
U16 == "U16"
F32 == "F32"
F64 == "F64"
ModbusType == {U16, F32, F64}

\* Mutant of register_count: the counts of F32 and F64 are exchanged.
register_count_swapped(modbus_type) ==
    CASE modbus_type = U16 -> 1
      [] modbus_type = F32 -> 4
      [] modbus_type = F64 -> 2

register_count(modbus_type) ==
    CASE modbus_type = U16 -> 1
      [] modbus_type = F32 -> 2
      [] modbus_type = F64 -> 4

(***************************************************************************)
(* Bit and byte helpers.  A 32 or 64 bit pattern does not fit TLC's        *)
(* integers, so a float is kept as its sequence of bits, most significant  *)
(* bit first; the bit sequence b1..bn stands for the number                *)
(* b1*2^(n-1) + ... + bn.                                                  *)
(***************************************************************************)
RECURSIVE Pow2(_)
Pow2(n) == IF n = 0 THEN 1 ELSE 2 * Pow2(n - 1)

\* The w-bit big-endian representation of n, 0 <= n < 2^w.
RECURSIVE Bits(_, _)
Bits(n, w) == IF w = 0 THEN <<>> ELSE Bits(n \div 2, w - 1) \o <<n % 2>>

\* The number that bits[from..to] stands for (used on at most 31 bits).
RECURSIVE BitsValue(_, _, _)
BitsValue(bits, from, to) ==
    IF to < from THEN 0
    ELSE 2 * BitsValue(bits, from, to - 1) + bits[to]

AllZero(bits, from, to) == \A i \in from..to : bits[i] = 0
AllOne(bits, from, to) == \A i \in from..to : bits[i] = 1

\* Mutant of to_be_bytes: the low byte first.
to_le_bytes(word) == <<word % 256, word \div 256>>

\* u16::to_be_bytes: high byte first.
to_be_bytes(word) == <<word \div 256, word % 256>>

\* data.iter().flat_map(|word| word.to_be_bytes()).collect::<Vec<u8>>()
RECURSIVE flat_map_to_be_bytes(_)
flat_map_to_be_bytes(data) ==
    IF data = <<>> THEN <<>>
    ELSE to_be_bytes(Head(data)) \o flat_map_to_be_bytes(Tail(data))

\* f32::from_be_bytes / f64::from_be_bytes: the first byte holds the most
\* significant bits of the pattern.
RECURSIVE from_be_bytes(_)
from_be_bytes(bytes) ==
    IF bytes = <<>> THEN <<>>
    ELSE Bits(Head(bytes), 8) \o from_be_bytes(Tail(bytes))

(***************************************************************************)
(* The decoders.  A call either returns a value or panics (unwrap).        *)
(***************************************************************************)
Panicked == [panic |-> TRUE, value |-> <<>>]
Returned(v) == [panic |-> FALSE, value |-> <<v>>]

\* *data.first().unwrap()
decode_u16(data) ==
    IF data = <<>> THEN Panicked ELSE Returned(Head(data))

\* Vec<u8> -> [u8; 4] by try_into().unwrap(), then f32::from_be_bytes.
decode_f32(data) ==
    LET bytes == flat_map_to_be_bytes(data)
    IN  IF Len(bytes) # 4 THEN Panicked ELSE Returned(from_be_bytes(bytes))

\* Vec<u8> -> [u8; 8] by try_into().unwrap(), then f64::from_be_bytes.
decode_f64(data) ==
    LET bytes == flat_map_to_be_bytes(data)
    IN  IF Len(bytes) # 8 THEN Panicked ELSE Returned(from_be_bytes(bytes))

(***************************************************************************)
(* to_string of a decoded value.  Display of a float is modelled on the    *)
(* patterns whose text is fixed without a shortest-digits search: NaN, the *)
(* infinities, the zeros and the integral values that are exact in the     *)
(* type and fit TLC's integers.  Other patterns are outside the model (the *)
(* CASE has no OTHER arm, so TLC stops if one is ever formatted).          *)
(***************************************************************************)
u16_to_string(n) == ToString(n)

\* bits[1] is the sign, bits[2..m-1] the exponent, bits[m..] the mantissa.
float_to_string(bits, expLen) ==
    LET m     == expLen + 2
        bias  == Pow2(expLen - 1) - 1
        e     == BitsValue(bits, 2, m - 1) - bias
        minus == IF bits[1] = 1 THEN "-" ELSE ""
        isMax == AllOne(bits, 2, m - 1)
        zero  == AllZero(bits, m, Len(bits))
    IN  CASE isMax /\ ~zero -> "NaN"
          [] isMax /\ zero -> minus \o "inf"
          [] AllZero(bits, 2, m - 1) /\ zero -> minus \o "0"
          [] /\ ~isMax
             /\ e >= 0
             /\ e <= 23
             /\ AllZero(bits, m + e, Len(bits)) ->
                minus \o ToString(Pow2(e) + BitsValue(bits, m, m + e - 1))

f32_to_string(bits) == float_to_string(bits, 8)
f64_to_string(bits) == float_to_string(bits, 11)

\* match modbus_type { U16 => decode_u16(&data).to_string(), ... }
DecodeToString(modbus_type, data) ==
    LET d == CASE modbus_type = U16 -> decode_u16(data)
               [] modbus_type = F32 -> decode_f32(data)
               [] modbus_type = F64 -> decode_f64(data)
    IN  IF d.panic THEN [panic |-> TRUE, text |-> ""]
        ELSE [panic |-> FALSE,
              text  |-> CASE modbus_type = U16 -> u16_to_string(d.value[1])
                          [] modbus_type = F32 -> f32_to_string(d.value[1])
                          [] modbus_type = F64 -> f64_to_string(d.value[1])]

(***************************************************************************)
(* The register table.                                                     *)
(***************************************************************************)
Metric(metric_name, labels, address, modbus_type) ==
    [metric_name |-> metric_name, labels |-> labels,
     address |-> address, modbus_type |-> modbus_type]

MODBUS_METRICS == <<
    Metric("fems_state", <<>>, 222, U16),
    Metric("fems_grid_mode", <<>>, 417, U16),
    Metric("fems_ess_soc_percent", <<>>, 302, U16),
    Metric("fems_ess_power_watts_total", <<>>, 303, F32),
    Metric("fems_ess_power_watts", << <<"phase", "l1">> >>, 391, F32),
    Metric("fems_ess_power_watts", << <<"phase", "l2">> >>, 393, F32),
    Metric("fems_ess_power_watts", << <<"phase", "l3">> >>, 395, F32),
    Metric("fems_ess_discharge_power_watts_total", <<>>, 415, F32),
    Metric("fems_ess_reactive_power_voltampere", <<>>, 309, F32),
    Metric("fems_grid_power_watts_total", <<>>, 315, F32),
    Metric("fems_grid_power_watts", << <<"phase", "l1">> >>, 397, F32),
    Metric("fems_grid_power_watts", << <<"phase", "l2">> >>, 399, F32),
    Metric("fems_grid_power_watts", << <<"phase", "l3">> >>, 401, F32),
    Metric("fems_production_power_watts_total", <<>>, 327, F32),
    Metric("fems_production_power_watts", << <<"type", "dc">> >>, 339, F32),
    Metric("fems_production_power_watts",
           << <<"type", "ac">>, <<"phase", "l1">> >>, 403, F32),
    Metric("fems_production_power_watts",
           << <<"type", "ac">>, <<"phase", "l2">> >>, 405, F32),
    Metric("fems_production_power_watts",
           << <<"type", "ac">>, <<"phase", "l3">> >>, 407, F32),
    Metric("fems_consumption_power_watts_total", <<>>, 343, F32),
    Metric("fems_consumption_power_watts", << <<"phase", "l3">> >>, 409, F32),
    Metric("fems_consumption_power_watts", << <<"phase", "l3">> >>, 411, F32),
    Metric("fems_consumption_power_watts", << <<"phase", "l3">> >>, 413, F32),
    Metric("fems_ess_charge_energy_watthours", <<>>, 351, F64),
    Metric("fems_ess_discharge_energy_watthours", <<>>, 355, F64),
    Metric("fems_ess_dc_charge_energy_watthours", <<>>, 383, F64),
    Metric("fems_ess_dc_discharge_energy_watthours", <<>>, 387, F64),
    Metric("fems_grid_buy_energy_watthours", <<>>, 359, F64),
    Metric("fems_grid_sell_energy_watthours", <<>>, 363, F64),
    Metric("fems_production_energy_watthours_total", <<>>, 367, F64),
    Metric("fems_production_energy_watthours", << <<"type", "ac">> >>, 371, F64),
    Metric("fems_production_energy_watthours", << <<"type", "dc">> >>, 375, F64),
    Metric("fems_consumption_energy_watthours", <<>>, 379, F64) >>

NumMetrics == Len(MODBUS_METRICS)

(***************************************************************************)
(* Formatting of one exposition line (the tail of the loop body).          *)
(***************************************************************************)
\* format!("{l} = \"{v}\"")
format_label(label) == label[1] \o " = \"" \o label[2] \o "\""

\* Vec<String>::join
RECURSIVE join(_, _)
join(strs, sep) ==
    IF strs = <<>> THEN ""
    ELSE IF Len(strs) = 1 THEN strs[1]
    ELSE strs[1] \o sep \o join(Tail(strs), sep)

\* Mutant of push_fems_id: the fems_id label is put first.
push_fems_id_first(labels, fems_id) == <<(<<"fems_id", fems_id>>)>> \o labels

\* labels.into(); labels.push(("fems_id", &fems_id))
push_fems_id(labels, fems_id) == Append(labels, <<"fems_id", fems_id>>)

\* the label segment: push, map format!, join(", ")
label_segment(labels, fems_id) ==
    LET all == push_fems_id(labels, fems_id)
    IN  join([i \in 1..Len(all) |-> format_label(all[i])], ", ")

\* format!("{metric_name}{{{labels}}} {value}\n")
format_line(metric, fems_id, value) ==
    metric.metric_name \o "{" \o label_segment(metric.labels, fems_id)
        \o "} " \o value \o "\n"

\* format!("unable to connect to fems modbus at {host}: {e}")
connect_error_message(host, e) ==
    "unable to connect to fems modbus at " \o host \o ": " \o e

\* format!("unable to read modbus input register: {e}")
read_error_message(e) == "unable to read modbus input register: " \o e

StatusOK == 200
StatusInternalServerError == 500

(***************************************************************************)
(* The environment: remote addresses, device labels, error causes and the  *)
(* input registers of the remote devices.  A device holds, for every table *)
(* entry, an integral quantity that depends on the device, the register    *)
(* and on whether the device has updated its registers since the process  *)
(* started, encoded big-endian in the entry's registers.                   *)
(***************************************************************************)
Hosts == {"10.0.0.1:502", "10.0.0.2:502"}
\* The query parameters (host, fems_id) that clients send.
Queries == {<<"10.0.0.1:502", "plant-1">>, <<"10.0.0.1:502", "d">>,
            <<"10.0.0.2:502", "d">>}
ConnectErrors == {"Connection refused (os error 111)"}
ReadErrors == {"Modbus function 4: Illegal data address",
               "Connection reset by peer (os error 104)"}

HostIndex(h) == IF h = "10.0.0.1:502" THEN 0 ELSE 1

DeviceQuantity(peer, address, t) ==
    address + (IF t THEN 1000 ELSE 0) + 10000 * HostIndex(peer)

RECURSIVE FloorLog2(_)
FloorLog2(n) == IF n < 2 THEN 0 ELSE 1 + FloorLog2(n \div 2)

\* The IEEE-754 pattern (sign, exponent, mantissa) of the integer n >= 1.
EncodeFloat(n, expLen, mantLen) ==
    LET e == FloorLog2(n)
    IN  <<0>> \o Bits(e + Pow2(expLen - 1) - 1, expLen)
              \o Bits(n - Pow2(e), e)
              \o [i \in 1..(mantLen - e) |-> 0]

\* A bit pattern split into 16-bit words, most significant word first.
WordsOf(bits) ==
    [i \in 1..(Len(bits) \div 16) |->
        BitsValue(bits, 16 * (i - 1) + 1, 16 * i)]

EncodeWords(modbus_type, n) ==
    CASE modbus_type = U16 -> <<n % 65536>>
      [] modbus_type = F32 -> WordsOf(EncodeFloat(n, 8, 23))
      [] modbus_type = F64 -> WordsOf(EncodeFloat(n, 11, 52))

\* The word held by input register reg of device peer, before (t = FALSE)
\* or after (t = TRUE) the update of the registers.
InputRegister(peer, reg, t) ==
    LET owners == {i \in 1..NumMetrics :
                     /\ MODBUS_METRICS[i].address <= reg
                     /\ reg < MODBUS_METRICS[i].address
                              + register_count(MODBUS_METRICS[i].modbus_type)}
    IN  IF owners = {} THEN 0
        ELSE LET m == MODBUS_METRICS[CHOOSE i \in owners : TRUE]
             IN  EncodeWords(m.modbus_type,
                             DeviceQuantity(peer, m.address, t))
                     [reg - m.address + 1]

\* The registers the table covers, and the register image of every device
\* before and after its update (a constant, evaluated once).
TableRegisters ==
    UNION {{MODBUS_METRICS[i].address + j :
              j \in 0..(register_count(MODBUS_METRICS[i].modbus_type) - 1)} :
           i \in 1..NumMetrics}

DeviceImage ==
    [peer \in Hosts |-> [t \in BOOLEAN |->
        [reg \in TableRegisters |-> InputRegister(peer, reg, t)]]]

\* The answers the devices can give to the reads of the table, and the
\* outcome of decoding each.  Decoded is DecodeToString; the table only
\* saves TLC from decoding the same words again in every state.
DeviceAnswers ==
    {<<MODBUS_METRICS[i].modbus_type,
       [j \in 1..register_count(MODBUS_METRICS[i].modbus_type) |->
           DeviceImage[h][t][MODBUS_METRICS[i].address + j - 1]]>> :
     i \in 1..NumMetrics, h \in Hosts, t \in BOOLEAN}

DecodeTable == [a \in DeviceAnswers |-> DecodeToString(a[1], a[2])]

Decoded(modbus_type, data) ==
    IF <<modbus_type, data>> \in DeviceAnswers
    THEN DecodeTable[<<modbus_type, data>>]
    ELSE DecodeToString(modbus_type, data)

(***************************************************************************)
(* State.                                                                  *)
(***************************************************************************)
Reqs == 1..NumReq
NoReq == 0
NoSession == [peer |-> "", gen |-> 0, slave |-> 0]

VARIABLES
    contexts,   \* ModbusState: the HashMap<SocketAddr, Context> under the Mutex
    locked,     \* the holder of the Mutex, or NoReq
    updated,    \* whether the remote devices have updated their registers
    pc,         \* per request: "idle", "lock", "connect", "read", "panicked"
    host,       \* per request: Params.host
    fems_id,    \* per request: Params.fems_id
    ctx,        \* per request: the session `ctx` refers to
    pos,        \* per request: the table position of the read last issued
    report,     \* per request: the local `report`
    lookup,     \* history, per request: what contexts.entry(host) found
    connects,   \* history, per request: connect attempts made
    readlog,    \* history, per request: the reads answered with Ok
    poolAtLookup, \* history, per request: contexts at the lookup
    nconn,      \* history, per address: successful connects so far
    returned,   \* the return of the step just taken, if it was one: the
                \* request, its parameters, its (StatusCode, String), the
                \* await it returned from and the Err that await gave (""
                \* for Ok), what the request did before, and for a report
                \* the reads it was made from
    dTy, dIn, dOut   \* DecodeSpec: a decoder, its argument and its outcome

reqVars == <<pc, host, fems_id, ctx, pos, report,
             lookup, connects, readlog, poolAtLookup>>
decodeVars == <<dTy, dIn, dOut>>
vars == <<contexts, locked, updated, nconn, returned, reqVars, decodeVars>>

\* dTy and dOut before a decoder is called.
NoType == "none"
NoOutcome == [panic |-> FALSE, value |-> <<>>]

NoReturn ==
    [req |-> NoReq, status |-> 0, body |-> "", host |-> "", fems_id |-> "",
     stage |-> "", error |-> "", session |-> NoSession, pos |-> 0,
     lookup |-> "none", connects |-> 0, pool |-> <<>>, reads |-> <<>>]

Init ==
    /\ contexts = <<>>
    /\ locked = NoReq
    /\ updated = FALSE
    /\ nconn = [h \in Hosts |-> 0]
    /\ returned = NoReturn
    /\ pc = [r \in Reqs |-> "idle"]
    /\ host = [r \in Reqs |-> ""]
    /\ fems_id = [r \in Reqs |-> ""]
    /\ ctx = [r \in Reqs |-> NoSession]
    /\ pos = [r \in Reqs |-> 0]
    /\ report = [r \in Reqs |-> ""]
    /\ lookup = [r \in Reqs |-> "none"]
    /\ connects = [r \in Reqs |-> 0]
    /\ readlog = [r \in Reqs |-> <<>>]
    /\ poolAtLookup = [r \in Reqs |-> <<>>]
    /\ dTy = NoType
    /\ dIn = <<>>
    /\ dOut = NoOutcome

(***************************************************************************)
(* The handler `metrics`, one action per stretch between await points.     *)
(***************************************************************************)
\* A request arrives with its query parameters and starts waiting at
\* state.0.lock().await.  A request slot whose request has returned (and is
\* idle again) or has panicked serves the next request.
Start(r, h, f) ==
    /\ pc[r] \in {"idle", "panicked"}
    /\ pc' = [pc EXCEPT ![r] = "lock"]
    /\ host' = [host EXCEPT ![r] = h]
    /\ fems_id' = [fems_id EXCEPT ![r] = f]
    /\ returned' = NoReturn
    /\ UNCHANGED <<contexts, locked, updated, nconn, ctx, pos, report,
                   lookup, connects, readlog, poolAtLookup, decodeVars>>

\* Mutant of MutexFree: the lock is granted whoever holds it.
MutexAlwaysFree == TRUE

\* tokio::sync::Mutex: lock().await completes only while nobody holds it.
MutexFree == locked = NoReq

\* Mutant of EntryOccupied: the lookup never finds the session.
EntryNeverOccupied(h) == FALSE

\* contexts.entry(host) is Entry::Occupied
EntryOccupied(h) == h \in DOMAIN contexts

\* Mutant of GuardAfterReturn: the guard outlives the return.
GuardKept(r) == r

\* The MutexGuard `contexts` is dropped when the function returns.
GuardAfterReturn(r) == NoReq

\* The locals and parameters of the request are dropped with its frame.
DropFrame(r) ==
    /\ host' = [host EXCEPT ![r] = ""]
    /\ fems_id' = [fems_id EXCEPT ![r] = ""]
    /\ ctx' = [ctx EXCEPT ![r] = NoSession]
    /\ pos' = [pos EXCEPT ![r] = 0]
    /\ report' = [report EXCEPT ![r] = ""]
    /\ lookup' = [lookup EXCEPT ![r] = "none"]
    /\ connects' = [connects EXCEPT ![r] = 0]
    /\ readlog' = [readlog EXCEPT ![r] = <<>>]
    /\ poolAtLookup' = [poolAtLookup EXCEPT ![r] = <<>>]

\* return (status, body): the result goes to the caller, the guard drops.
\* e is the Err the last await gave ("" for Ok); reads is the read log of a
\* report, empty for an error.
Return(r, status, body, e, reads) ==
    /\ pc' = [pc EXCEPT ![r] = "idle"]
    /\ returned' =
          [req |-> r, status |-> status, body |-> body, host |-> host[r],
           fems_id |-> fems_id[r], stage |-> pc[r], error |-> e,
           session |-> ctx[r], pos |-> pos[r], lookup |-> lookup[r],
           connects |-> connects[r], pool |-> poolAtLookup[r],
           reads |-> reads]
    /\ locked' = GuardAfterReturn(r)
    /\ DropFrame(r)

\* The lock is granted, the pool is looked up; an existing session starts
\* the loop (first read issued), a missing one starts tcp::connect(host).
Acquire(r) ==
    /\ pc[r] = "lock"
    /\ MutexFree
    /\ locked' = r
    /\ poolAtLookup' = [poolAtLookup EXCEPT ![r] = contexts]
    /\ IF EntryOccupied(host[r])
       THEN /\ lookup' = [lookup EXCEPT ![r] = "occupied"]
            /\ ctx' = [ctx EXCEPT ![r] = contexts[host[r]]]
            /\ pc' = [pc EXCEPT ![r] = "read"]
            /\ pos' = [pos EXCEPT ![r] = 1]
            /\ UNCHANGED connects
       ELSE /\ lookup' = [lookup EXCEPT ![r] = "vacant"]
            /\ connects' = [connects EXCEPT ![r] = connects[r] + 1]
            /\ pc' = [pc EXCEPT ![r] = "connect"]
            /\ UNCHANGED <<ctx, pos>>
    /\ returned' = NoReturn
    /\ UNCHANGED <<contexts, updated, nconn, host, fems_id, report,
                   readlog, decodeVars>>

\* Mutant of set_slave: the slave unit is left unset.
set_slave_skipped(session) == session

\* ctx.set_slave(Slave(1))
set_slave(session) == [session EXCEPT !.slave = 1]

\* Mutant of EntryInsert: the insert drops the other entries.
EntryInsertAlone(map, h, session) == [k \in {h} |-> session]

\* e.insert(ctx) on the vacant entry
EntryInsert(map, h, session) ==
    [k \in DOMAIN map \cup {h} |-> IF k = h THEN session ELSE map[k]]

\* tcp::connect(host) answers Ok: set the slave, insert, issue the first read.
ConnectOk(r) ==
    /\ pc[r] = "connect"
    /\ nconn[host[r]] < MaxConnects
    /\ LET session == set_slave([peer |-> host[r],
                                 gen |-> nconn[host[r]] + 1,
                                 slave |-> 0])
       IN  /\ contexts' = EntryInsert(contexts, host[r], session)
           /\ ctx' = [ctx EXCEPT ![r] = session]
    /\ nconn' = [nconn EXCEPT ![host[r]] = nconn[host[r]] + 1]
    /\ pc' = [pc EXCEPT ![r] = "read"]
    /\ pos' = [pos EXCEPT ![r] = 1]
    /\ returned' = NoReturn
    /\ UNCHANGED <<locked, updated, host, fems_id, report, lookup,
                   connects, readlog, poolAtLookup, decodeVars>>

\* Mutant of ConnectErr: a placeholder is left in the pool.
ConnectErrWithPlaceholder(r, e) ==
    /\ pc[r] = "connect"
    /\ Return(r, StatusInternalServerError,
              connect_error_message(host[r], e), e, <<>>)
    /\ contexts' = EntryInsert(contexts, host[r], NoSession)
    /\ UNCHANGED <<updated, nconn, decodeVars>>

\* tcp::connect(host) answers Err(e).
ConnectErr(r, e) ==
    /\ pc[r] = "connect"
    /\ Return(r, StatusInternalServerError,
              connect_error_message(host[r], e), e, <<>>)
    /\ UNCHANGED <<contexts, updated, nconn, decodeVars>>

\* Mutant of read_input_registers: the answer is one word short.
read_input_registers_short(session, address, cnt) ==
    [j \in 1..(cnt - 1) |->
        IF address + j - 1 \in TableRegisters
        THEN DeviceImage[session.peer][updated][address + j - 1]
        ELSE 0]

\* The answer of the device behind `session` to a read of cnt input
\* registers from address: exactly cnt words.
read_input_registers(session, address, cnt) ==
    [j \in 1..cnt |->
        IF address + j - 1 \in TableRegisters
        THEN DeviceImage[session.peer][updated][address + j - 1]
        ELSE 0]

\* Mutant of push_str: the line is put in front.
push_front(s, line) == line \o s

\* report.push_str(&line)
push_str(s, line) == s \o line

\* The read in flight answers Ok(data): decode, format, push the line, then
\* issue the next read or return the report.  A decoder that panics unwinds
\* the task: the guard and the frame are dropped and nothing is returned.
ReadOk(r) ==
    /\ pc[r] = "read"
    /\ LET metric == MODBUS_METRICS[pos[r]]
           cnt    == register_count(metric.modbus_type)
           data   == read_input_registers(ctx[r], metric.address, cnt)
           value  == Decoded(metric.modbus_type, data)
           rep    == push_str(report[r],
                              format_line(metric, fems_id[r], value.text))
           log    == Append(readlog[r],
                            [session |-> ctx[r], address |-> metric.address,
                             cnt |-> cnt, data |-> data])
       IN  IF value.panic
           THEN /\ pc' = [pc EXCEPT ![r] = "panicked"]
                /\ locked' = NoReq
                /\ returned' = NoReturn
                /\ DropFrame(r)
           ELSE IF pos[r] < NumMetrics
           THEN /\ report' = [report EXCEPT ![r] = rep]
                /\ readlog' = [readlog EXCEPT ![r] = log]
                /\ pos' = [pos EXCEPT ![r] = pos[r] + 1]
                /\ returned' = NoReturn
                /\ UNCHANGED <<pc, locked, host, fems_id, ctx, lookup,
                               connects, poolAtLookup>>
           ELSE Return(r, StatusOK, rep, "", log)
    /\ UNCHANGED <<contexts, updated, nconn, decodeVars>>

\* Mutant of ReadErr: the lines formatted so far stay in the body.
ReadErrWithPartialReport(r, e) ==
    /\ pc[r] = "read"
    /\ Return(r, StatusInternalServerError,
              report[r] \o read_error_message(e), e, <<>>)
    /\ UNCHANGED <<contexts, updated, nconn, decodeVars>>

\* Mutant of ReadErr: the session that failed is removed from the pool.
ReadErrEvicting(r, e) ==
    /\ pc[r] = "read"
    /\ Return(r, StatusInternalServerError, read_error_message(e), e, <<>>)
    /\ contexts' = [k \in DOMAIN contexts \ {host[r]} |-> contexts[k]]
    /\ UNCHANGED <<updated, nconn, decodeVars>>

\* Mutant of ReadErr: the failed entry is skipped and the loop goes on.
ReadErrContinuing(r, e) ==
    /\ pc[r] = "read"
    /\ IF pos[r] < NumMetrics
       THEN /\ pos' = [pos EXCEPT ![r] = pos[r] + 1]
            /\ returned' = NoReturn
            /\ UNCHANGED <<pc, locked, host, fems_id, ctx, report, lookup,
                           connects, readlog, poolAtLookup>>
       ELSE Return(r, StatusInternalServerError, read_error_message(e),
                   e, <<>>)
    /\ UNCHANGED <<contexts, updated, nconn, decodeVars>>

\* The read in flight answers Err(e).
ReadErr(r, e) ==
    /\ pc[r] = "read"
    /\ Return(r, StatusInternalServerError, read_error_message(e), e, <<>>)
    /\ UNCHANGED <<contexts, updated, nconn, decodeVars>>

\* The remote devices update their registers.
Update ==
    /\ ~updated
    /\ updated' = TRUE
    /\ returned' = NoReturn
    /\ UNCHANGED <<contexts, locked, nconn, reqVars, decodeVars>>

Next ==
    \/ \E r \in Reqs, q \in Queries : Start(r, q[1], q[2])
    \/ \E r \in Reqs : Acquire(r)
    \/ \E r \in Reqs : ConnectOk(r)
    \/ \E r \in Reqs, e \in ConnectErrors : ConnectErr(r, e)
    \/ \E r \in Reqs : ReadOk(r)
    \/ \E r \in Reqs, e \in ReadErrors : ReadErr(r, e)
    \/ Update

Spec == Init /\ [][Next]_vars

\* The connect or the read request r awaits completes, with Ok or Err.
Complete(r) ==
    \/ ConnectOk(r)
    \/ \E e \in ConnectErrors : ConnectErr(r, e)
    \/ ReadOk(r)
    \/ \E e \in ReadErrors : ReadErr(r, e)

\* Every connect and every read completes, and lock().await serves its
\* waiters in the order they queued, so no waiter is passed over for ever.
Fairness ==
    \A r \in Reqs : WF_vars(Complete(r)) /\ SF_vars(Acquire(r))

FairSpec == Spec /\ Fairness

(***************************************************************************)
(* The decoders on their own: any of the three is called once with any     *)
(* word sequence of up to MaxLen words.                                    *)
(***************************************************************************)
Words == {0, 1, 256, 16672, 65535}
WordSeqs == UNION {[1..n -> Words] : n \in 0..MaxLen}

InitDecode ==
    /\ contexts = <<>>
    /\ locked = NoReq
    /\ updated = FALSE
    /\ nconn = [h \in Hosts |-> 0]
    /\ returned = NoReturn
    /\ pc = [r \in Reqs |-> "idle"]
    /\ host = [r \in Reqs |-> ""]
    /\ fems_id = [r \in Reqs |-> ""]
    /\ ctx = [r \in Reqs |-> NoSession]
    /\ pos = [r \in Reqs |-> 0]
    /\ report = [r \in Reqs |-> ""]
    /\ lookup = [r \in Reqs |-> "none"]
    /\ connects = [r \in Reqs |-> 0]
    /\ readlog = [r \in Reqs |-> <<>>]
    /\ poolAtLookup = [r \in Reqs |-> <<>>]
    /\ dTy = NoType
    /\ dIn \in WordSeqs
    /\ dOut = NoOutcome

CallU16 ==
    /\ dTy = NoType
    /\ dTy' = U16
    /\ dOut' = decode_u16(dIn)
    /\ UNCHANGED <<dIn, contexts, locked, updated, nconn, returned, reqVars>>

CallF32 ==
    /\ dTy = NoType
    /\ dTy' = F32
    /\ dOut' = decode_f32(dIn)
    /\ UNCHANGED <<dIn, contexts, locked, updated, nconn, returned, reqVars>>

CallF64 ==
    /\ dTy = NoType
    /\ dTy' = F64
    /\ dOut' = decode_f64(dIn)
    /\ UNCHANGED <<dIn, contexts, locked, updated, nconn, returned, reqVars>>

NextDecode == CallU16 \/ CallF32 \/ CallF64

DecodeSpec == InitDecode /\ [][NextDecode]_vars


(***************************************************************************)
(* Properties.                                                             *)
(***************************************************************************)
\* A request is between its pool lookup and its return.
InFlight(r) == pc[r] \in {"connect", "read"}
\* The step just taken was the return of a request.
Returning == returned.req # NoReq
ReadFailed == Returning /\ returned.stage = "read" /\ returned.error # ""
ConnectFailed == Returning /\ returned.stage = "connect"

\* C1: at most one request at a time is between its pool lookup and its
\* return, whatever the addresses: no two requests have a connect or a read
\* in flight together, on the same session or on different ones.
C1_Serialized ==
    /\ Cardinality({r \in Reqs : InFlight(r)}) <= 1
    /\ \A r1, r2 \in Reqs :
          pc[r1] = "read" /\ pc[r2] \in {"connect", "read"} => r1 = r2

\* A request for another address whose session is in the pool waits while a
\* request is in the middle of its reads.
C1_Witness ==
    \E r1, r2 \in Reqs :
        /\ pc[r1] = "read" /\ pos[r1] > 1
        /\ pc[r2] = "lock"
        /\ host[r2] # host[r1]
        /\ host[r2] \in DOMAIN contexts

\* What a request between lookup and return, or the return just made, did
\* at its lookup and how many connects it attempted.
ConnectsAsLookup(h, pool, found, n) ==
    /\ found = (IF h \in DOMAIN pool THEN "occupied" ELSE "vacant")
    /\ n = (IF h \in DOMAIN pool THEN 0 ELSE 1)

\* C2: a request attempts a connect iff its address is absent from the pool
\* at its lookup, and then exactly one; each address has at most one
\* successful connect, and a request for an address in the pool uses the
\* stored session.
C2_ConnectIffAbsent ==
    /\ \A r \in Reqs : InFlight(r) =>
          /\ ConnectsAsLookup(host[r], poolAtLookup[r], lookup[r], connects[r])
          /\ pc[r] = "connect" => host[r] \notin DOMAIN poolAtLookup[r]
          /\ host[r] \in DOMAIN poolAtLookup[r] =>
                ctx[r] = poolAtLookup[r][host[r]]
    /\ Returning =>
          ConnectsAsLookup(returned.host, returned.pool, returned.lookup,
                           returned.connects)
    /\ \A h \in Hosts : nconn[h] <= 1
    /\ \A h \in DOMAIN contexts : nconn[h] = 1 /\ contexts[h].gen = 1

\* Two requests for one address: one reads through the stored session, found
\* at its lookup, while the other waits for the lock.
C2_Witness ==
    \E r1, r2 \in Reqs :
        /\ r1 # r2
        /\ pc[r1] = "read" /\ lookup[r1] = "occupied"
        /\ pc[r2] = "lock" /\ host[r2] = host[r1]

\* C3: a failed read at any table position returns 500 and a body that is
\* exactly "unable to read modbus input register: " and the cause, with
\* none of the lines formatted before.
C3_ReadErrorBody ==
    ReadFailed =>
        /\ returned.pos \in 1..NumMetrics
        /\ returned.status = 500
        /\ returned.body =
              "unable to read modbus input register: " \o returned.error

\* The last read of the table fails, after 31 lines were formatted.
C3_Witness == ReadFailed /\ returned.pos = NumMetrics

\* C4: a failed connect returns 500 with the message naming the address and
\* the cause, issues no read and leaves the pool as it was at the lookup,
\* without an entry for the address.
C4_ConnectError ==
    ConnectFailed =>
        /\ returned.error # ""
        /\ returned.status = 500
        /\ returned.body = "unable to connect to fems modbus at "
                              \o returned.host \o ": " \o returned.error
        /\ returned.pos = 0
        /\ returned.reads = <<>>
        /\ contexts = returned.pool
        /\ returned.host \notin DOMAIN contexts

\* A connect fails while the pool holds the session of another address.
C4_Witness == ConnectFailed /\ DOMAIN contexts # {}

\* The report made of the first n reads of a log, for device label fid.
RECURSIVE ReportOf(_, _, _)
ReportOf(fid, reads, n) ==
    IF n = 0 THEN ""
    ELSE ReportOf(fid, reads, n - 1)
            \o format_line(MODBUS_METRICS[n], fid,
                   Decoded(MODBUS_METRICS[n].modbus_type, reads[n].data).text)

\* C5: when the session is acquired and every read succeeds the request
\* returns 200 and a report of exactly one line per table entry, the i-th
\* line for the i-th entry with the value decoded from the i-th read of
\* that request.
C5_ReportInOrder ==
    Returning =>
        /\ returned.error = "" <=> returned.status = 200
        /\ returned.status = 200 =>
              /\ Len(returned.reads) = NumMetrics
              /\ \A i \in 1..NumMetrics :
                    /\ returned.reads[i].address = MODBUS_METRICS[i].address
                    /\ returned.reads[i].session = returned.session
              /\ returned.body =
                    ReportOf(returned.fems_id, returned.reads, NumMetrics)

\* A report whose first read saw the registers of the first device before
\* their update and whose third read saw them after it, returned while
\* another request waits.
C5_Witness ==
    /\ Returning /\ returned.status = 200
    /\ returned.reads[1].data = <<222>>
    /\ returned.reads[3].data = <<1302>>
    /\ \E r \in Reqs : pc[r] = "lock"

\* C6: a failed read leaves the pool as it was (the session stays under its
\* address), and a request for an address in the pool uses that session
\* without a connect, so it can end in a read error but not a connect error.
C6_FailedReadKeepsSession ==
    /\ ReadFailed =>
          /\ returned.host \in DOMAIN contexts
          /\ contexts[returned.host] = returned.session
          /\ contexts = (IF returned.lookup = "occupied" THEN returned.pool
                         ELSE EntryInsert(returned.pool, returned.host,
                                          returned.session))
    /\ \A r \in Reqs : InFlight(r) /\ host[r] \in DOMAIN poolAtLookup[r] =>
          /\ pc[r] = "read"
          /\ connects[r] = 0
          /\ ctx[r] = contexts[host[r]]
    /\ Returning /\ returned.host \in DOMAIN returned.pool =>
          returned.stage = "read" /\ returned.connects = 0

\* A request that found the session in the pool fails a read, and another
\* request for the same address is waiting.
C6_Witness ==
    /\ ReadFailed /\ returned.lookup = "occupied"
    /\ \E r \in Reqs : pc[r] = "lock" /\ host[r] = returned.host

\* C7: decoding assembles the words big-endian, first word most significant:
\* the pattern of two (four) words is the bits of word0 followed by those of
\* word1 (.. word3), splitting that pattern into 16-bit words gives the
\* words back, and a single UInt16 word is returned unchanged.
C7_BigEndian ==
    /\ dTy = U16 /\ Len(dIn) = 1 =>
          /\ ~dOut.panic
          /\ dOut.value = <<dIn[1]>>
          /\ dIn[1] \in 0..65535
    /\ dTy = F32 /\ Len(dIn) = 2 =>
          LET p == Bits(dIn[1], 16) \o Bits(dIn[2], 16)
          IN  /\ ~dOut.panic
              /\ dOut.value = <<p>>
              /\ Len(p) = 32
              /\ WordsOf(p) = dIn
    /\ dTy = F64 /\ Len(dIn) = 4 =>
          LET p == Bits(dIn[1], 16) \o Bits(dIn[2], 16)
                      \o Bits(dIn[3], 16) \o Bits(dIn[4], 16)
          IN  /\ ~dOut.panic
              /\ dOut.value = <<p>>
              /\ Len(p) = 64
              /\ WordsOf(p) = dIn

\* decode_f64 was called with four different words.
C7_Witness ==
    dTy = F64 /\ dIn = <<16672, 0, 1, 65535>> /\ ~dOut.panic

\* The label segment of a table entry for device label fid: its own labels
\* in declared order, each followed by ", ", then the fems_id label.
RECURSIVE OwnLabels(_)
OwnLabels(labels) ==
    IF labels = <<>> THEN ""
    ELSE Head(labels)[1] \o " = \"" \o Head(labels)[2] \o "\", "
            \o OwnLabels(Tail(labels))

ExpectedSegment(labels, fid) ==
    OwnLabels(labels) \o "fems_id = \"" \o fid \o "\""

RECURSIVE ExpectedLines(_, _, _)
ExpectedLines(fid, reads, n) ==
    IF n = 0 THEN ""
    ELSE ExpectedLines(fid, reads, n - 1)
            \o MODBUS_METRICS[n].metric_name \o "{"
            \o ExpectedSegment(MODBUS_METRICS[n].labels, fid) \o "} "
            \o Decoded(MODBUS_METRICS[n].modbus_type, reads[n].data).text
            \o "\n"

\* C8: every line of a report has the entry's own labels in declared order
\* followed by fems_id as the last label, each as key = "value" joined by
\* ", " (an entry without labels has the fems_id label alone), and the
\* fems_id value is the device label of the request that returns the report.
C8_LabelSegment ==
    /\ Returning /\ returned.status = 200 =>
          returned.body =
              ExpectedLines(returned.fems_id, returned.reads, NumMetrics)
    /\ ExpectedSegment(MODBUS_METRICS[5].labels, "d")
          = "phase = \"l1\", fems_id = \"d\""
    /\ ExpectedSegment(MODBUS_METRICS[1].labels, "d") = "fems_id = \"d\""

\* A report for device label "d" is returned while a request with the label
\* "plant-1" for the same address is waiting.
C8_Witness ==
    /\ Returning /\ returned.status = 200 /\ returned.fems_id = "d"
    /\ \E r \in Reqs :
          /\ pc[r] = "lock"
          /\ fems_id[r] = "plant-1"
          /\ host[r] = returned.host

\* C9 as claimed: a decoder called with a word sequence whose length is not
\* the word count of its type, shorter or longer, panics.
C9_PanicsOnAnyMismatch ==
    dTy # NoType /\ Len(dIn) # register_count(dTy) => dOut.panic

\* C10: a request holds the lock from its lookup to its return, across the
\* connect and every read, and every return releases it: the lock is held by
\* r exactly while r is between lookup and return.
C10_LockHeldUntilReturn ==
    /\ locked \in Reqs \cup {NoReq}
    /\ \A r \in Reqs : InFlight(r) <=> locked = r
    /\ Returning => locked = NoReq /\ pc[returned.req] = "idle"

\* A request returns from the middle of the table with a read error while
\* another one waits for the lock, which is free again.
C10_Witness ==
    /\ ReadFailed /\ returned.pos = 17
    /\ locked = NoReq
    /\ \E r \in Reqs : pc[r] = "lock"


\* C11: no retry: a request attempts at most one connect and issues at most
\* one read per table entry, in table order, the read of entry k only after
\* the reads of entries 1..k-1 were answered with Ok; a failed read is the
\* return of the request, which issues nothing after it.
C11_NoRetry ==
    /\ \A r \in Reqs :
          /\ connects[r] <= 1
          /\ pc[r] \in {"idle", "lock"} =>
                pos[r] = 0 /\ connects[r] = 0 /\ readlog[r] = <<>>
          /\ pc[r] = "connect" => pos[r] = 0 /\ readlog[r] = <<>>
          /\ pc[r] = "read" =>
                /\ pos[r] \in 1..NumMetrics
                /\ Len(readlog[r]) = pos[r] - 1
                /\ \A i \in 1..Len(readlog[r]) :
                      readlog[r][i].address = MODBUS_METRICS[i].address
    /\ Returning =>
          /\ returned.connects <= 1
          /\ returned.pos \in 0..NumMetrics
          /\ ReadFailed => returned.pos >= 1
          /\ returned.status = 200 => returned.pos = NumMetrics
          /\ pc[returned.req] = "idle" /\ pos[returned.req] = 0

\* A request that connected once has its second read fail.
C11_Witness ==
    ReadFailed /\ returned.pos = 2 /\ returned.connects = 1

\* C12: while the connect or the read of the lock holder does not complete,
\* no other request performs its pool lookup or returns a result, whatever
\* its address and whether or not its session is in the pool.
C12_HungHolderBlocksAll ==
    [][\A r \in Reqs :
          (InFlight(r) /\ pc'[r] = pc[r] /\ pos'[r] = pos[r]) =>
              \A r2 \in Reqs \ {r} :
                  /\ pc[r2] = "lock" => pc'[r2] = "lock"
                  /\ pc'[r2] \notin {"connect", "read"}
                  /\ lookup'[r2] = "none"
                  /\ returned'.req # r2]_vars

\* A connect is in flight while a request whose session is in the pool
\* waits for the lock.
C12_Witness ==
    \E r1, r2 \in Reqs :
        /\ pc[r1] = "connect"
        /\ pc[r2] = "lock"
        /\ host[r2] \in DOMAIN contexts

\* C13: the pool only grows: no step removes an entry or changes the
\* session of an entry, and the only step that adds one is the successful
\* connect of a request to an address that was absent.
C13_PoolGrowsOnly ==
    [][/\ DOMAIN contexts \subseteq DOMAIN contexts'
       /\ \A h \in DOMAIN contexts : contexts'[h] = contexts[h]
       /\ DOMAIN contexts' # DOMAIN contexts =>
             \E r \in Reqs :
                 /\ pc[r] = "connect" /\ pc'[r] = "read"
                 /\ host[r] \notin DOMAIN contexts
                 /\ DOMAIN contexts' = DOMAIN contexts \cup {host[r]}]_vars

\* Both addresses are in the pool after a read has failed.
C13_Witness == ReadFailed /\ Cardinality(DOMAIN contexts) = 2

\* C14: every session stored under an address was opened by a connect to
\* that address and has slave unit 1, and every read of a request goes
\* through the session stored under the address of the request.
C14_SessionOfAddress ==
    /\ \A h \in DOMAIN contexts :
          contexts[h].peer = h /\ contexts[h].slave = 1
    /\ \A r \in Reqs : pc[r] = "read" =>
          /\ host[r] \in DOMAIN contexts
          /\ ctx[r] = contexts[host[r]]
          /\ \A i \in 1..Len(readlog[r]) :
                readlog[r][i].session = contexts[host[r]]
    /\ Returning /\ returned.status = 200 =>
          \A i \in 1..Len(returned.reads) :
              /\ returned.reads[i].session = contexts[returned.host]
              /\ returned.reads[i].session.peer = returned.host

\* A request reads through the session of the second address while the
\* pool holds the sessions of both.
C14_Witness ==
    \E r \in Reqs :
        /\ pc[r] = "read" /\ pos[r] > 1
        /\ host[r] = "10.0.0.2:502"
        /\ Cardinality(DOMAIN contexts) = 2

\* The word count of a type: 1, 2 or 4.
WordCount(modbus_type) ==
    IF modbus_type = U16 THEN 1 ELSE IF modbus_type = F32 THEN 2 ELSE 4

ReadMatchesEntry(read, i) ==
    /\ read.address = MODBUS_METRICS[i].address
    /\ read.cnt = WordCount(MODBUS_METRICS[i].modbus_type)
    /\ Len(read.data) = WordCount(MODBUS_METRICS[i].modbus_type)
    /\ ~Decoded(MODBUS_METRICS[i].modbus_type, read.data).panic

\* C15: for every table entry the request reads 1, 2 or 4 registers, the
\* word count of the entry's type, from the entry's address, and the decoder
\* of that type gets exactly that many words; no request panics.
C15_CountMatchesType ==
    /\ \A r \in Reqs :
          /\ pc[r] # "panicked"
          /\ \A i \in 1..Len(readlog[r]) : ReadMatchesEntry(readlog[r][i], i)
    /\ Returning /\ returned.status = 200 =>
          \A i \in 1..Len(returned.reads) :
              ReadMatchesEntry(returned.reads[i], i)

\* A report was made of reads of one, two and four registers.
C15_Witness ==
    /\ Returning /\ returned.status = 200
    /\ returned.reads[1].cnt = 1
    /\ returned.reads[4].cnt = 2
    /\ returned.reads[NumMetrics].cnt = 4

\* The registers of table entry i.
RegistersOf(i) ==
    MODBUS_METRICS[i].address ..
        (MODBUS_METRICS[i].address
            + register_count(MODBUS_METRICS[i].modbus_type) - 1)

\* No two distinct table entries have a register in common.
TableRangesDisjoint ==
    \A i, j \in 1..NumMetrics :
        i # j => RegistersOf(i) \cap RegistersOf(j) = {}

\* The last register of a read.
LastRegister(read) == read.address + read.cnt - 1

\* C16: the register ranges [address, address + register_count - 1] of any
\* two distinct table entries are disjoint, so no read of a request covers
\* a register that an earlier read of the request covered.
C16_RangesDisjoint ==
    /\ TableRangesDisjoint
    /\ \A r \in Reqs : readlog[r] # <<>> =>
          LET last == readlog[r][Len(readlog[r])] IN
          \A i \in 1..(Len(readlog[r]) - 1) :
              \/ LastRegister(readlog[r][i]) < last.address
              \/ LastRegister(last) < readlog[r][i].address

\* A request has read the last F32 entry and the first F64 entry.
C16_Witness ==
    \E r \in Reqs : pc[r] = "read" /\ pos[r] = 24 /\ updated

\* C17 as claimed: no two table entries have the same metric name and the
\* same labels, so no report has two lines with the same name and the same
\* label segment.
C17_UniqueSeries ==
    Returning /\ returned.status = 200 =>
        \A i, j \in 1..NumMetrics : i # j =>
            /\ ~(/\ MODBUS_METRICS[i].metric_name
                       = MODBUS_METRICS[j].metric_name
                 /\ MODBUS_METRICS[i].labels = MODBUS_METRICS[j].labels)
            /\ ~(/\ MODBUS_METRICS[i].metric_name
                       = MODBUS_METRICS[j].metric_name
                 /\ label_segment(MODBUS_METRICS[i].labels, returned.fems_id)
                       = label_segment(MODBUS_METRICS[j].labels,
                                       returned.fems_id))


\* C18: when every connect and every read completes and the lock is granted
\* fairly, every request that was started returns, with 200 or with 500,
\* also when requests before it returned an error.
C18_EveryRequestReturns ==
    \A r \in Reqs :
        (pc[r] \in {"lock", "connect", "read"})
            ~> (returned.req = r /\ returned.status \in {200, 500})

\* A request returns an error while another one waits for the lock.
C18_Witness ==
    /\ Returning /\ returned.status = 500
    /\ \E r \in Reqs \ {returned.req} : pc[r] = "lock"

====
